---- MODULE Spec2Model ----
(***************************************************************************)
(* Model of the invariant extended Kalman filter core                      *)
(* (src/modules/iekf/IEKF.cpp, IEKF.hpp).                                  *)
(*                                                                         *)
(* Numbers.  The filter computes in IEEE binary32.  The model computes in  *)
(* a decimal floating point with the same special values: a number is a    *)
(* pair <<m, e>> standing for m * 10^e, kept canonical (m carries no       *)
(* trailing zero, |m| <= MantMax, zero is <<0, 0>>), results are truncated *)
(* to the digits MantMax allows, magnitudes of 1e39 and more overflow to   *)
(* an infinity and magnitudes under 1e-45 underflow to zero.  NaN and the  *)
(* two infinities are the pairs with exponent SpecialExp.  The sign of     *)
(* zero is not modelled (no comparison of the filter distinguishes it).    *)
(***************************************************************************)
EXTENDS Integers, Sequences, FiniteSets, TLC

\* largest mantissa kept by the arithmetic (four significant digits)
MantMax == 9999

SpecialExp == 1000 * 1000
NaN == <<0, SpecialExp>>
PInf == <<1, SpecialExp>>
NInf == <<-1, SpecialExp>>
Zero == <<0, 0>>

IsNaN(a) == a[2] = SpecialExp /\ a[1] = 0
IsInf(a) == a[2] = SpecialExp /\ a[1] # 0
IsFinite(a) == a[2] # SpecialExp
IsZero(a) == a[1] = 0 /\ a[2] = 0

AbsI(n) == IF n < 0 THEN -n ELSE n
SgnI(n) == IF n < 0 THEN -1 ELSE IF n > 0 THEN 1 ELSE 0

Pow10(k) ==
    IF k <= 0 THEN 1
    ELSE IF k = 1 THEN 10
    ELSE IF k = 2 THEN 100
    ELSE IF k = 3 THEN 1000
    ELSE IF k = 4 THEN 10000
    ELSE IF k = 5 THEN 100000
    ELSE IF k = 6 THEN 1000000
    ELSE IF k = 7 THEN 10000000
    ELSE IF k = 8 THEN 100000000
    ELSE 1000000000

RECURSIVE Digits(_)
Digits(a) == IF a < 10 THEN 1 ELSE 1 + Digits(a \div 10)

\* canonical form of the magnitude a * 10^e (0 < a < 2^31) with sign s: the
\* digits beyond MantMax are cut off, one at a time or three at a time when
\* three are sure to go; then trailing zeros go to the exponent
RECURSIVE NormAbs(_, _, _)
NormAbs(s, a, e) ==
    IF a > MantMax
    THEN (IF a > MantMax * 1000 THEN NormAbs(s, a \div 1000, e + 3)
          ELSE NormAbs(s, a \div 10, e + 1))
    ELSE IF a % 10 = 0 THEN NormAbs(s, a \div 10, e + 1)
    ELSE IF e >= -45 /\ e <= 28 THEN <<s * a, e>>
    ELSE IF e + Digits(a) - 1 > 38 THEN (IF s < 0 THEN NInf ELSE PInf)
    ELSE IF e + Digits(a) - 1 < -45 THEN Zero
    ELSE <<s * a, e>>

Norm(m, e) == IF m = 0 THEN Zero ELSE NormAbs(SgnI(m), AbsI(m), e)

\* the number m * 10^e, as a literal of the source is read
N(m, e) == Norm(m, e)
One == N(1, 0)

Neg(a) == IF IsNaN(a) THEN NaN ELSE IF IsZero(a) THEN Zero ELSE <<-a[1], a[2]>>

\* a + b for finite a, b with a[2] >= b[2]
AddOrdered(a, b) ==
    LET d == a[2] - b[2]
        s == IF d > 5 THEN 5 ELSE d
        lo == IF d - s > 9 THEN 0
              ELSE SgnI(b[1]) * (AbsI(b[1]) \div Pow10(d - s))
    IN Norm(a[1] * Pow10(s) + lo, a[2] - s)

Add(a, b) ==
    IF IsNaN(a) \/ IsNaN(b) THEN NaN
    ELSE IF IsInf(a) THEN (IF IsInf(b) /\ a # b THEN NaN ELSE a)
    ELSE IF IsInf(b) THEN b
    ELSE IF IsZero(a) THEN b
    ELSE IF IsZero(b) THEN a
    ELSE IF a[2] >= b[2] THEN AddOrdered(a, b) ELSE AddOrdered(b, a)

Sub(a, b) == Add(a, Neg(b))

Mul(a, b) ==
    IF IsNaN(a) \/ IsNaN(b) THEN NaN
    ELSE IF IsInf(a) \/ IsInf(b)
         THEN (IF IsZero(a) \/ IsZero(b) THEN NaN
               ELSE IF SgnI(a[1]) * SgnI(b[1]) < 0 THEN NInf ELSE PInf)
    ELSE IF IsZero(a) \/ IsZero(b) THEN Zero
    ELSE Norm(a[1] * b[1], a[2] + b[2])

Div(a, b) ==
    IF IsNaN(a) \/ IsNaN(b) THEN NaN
    ELSE IF IsInf(a)
         THEN (IF IsInf(b) THEN NaN
               ELSE IF SgnI(a[1]) * (IF b[1] < 0 THEN -1 ELSE 1) < 0 THEN NInf ELSE PInf)
    ELSE IF IsInf(b) THEN Zero
    ELSE IF IsZero(b)
         THEN (IF IsZero(a) THEN NaN ELSE IF a[1] < 0 THEN NInf ELSE PInf)
    ELSE IF IsZero(a) THEN Zero
    ELSE Norm(SgnI(a[1]) * SgnI(b[1]) * ((AbsI(a[1]) * 100000) \div AbsI(b[1])),
              a[2] - b[2] - 5)

\* a < b, a > b as the comparisons of the source: false when either is NaN
Lt(a, b) ==
    IF IsNaN(a) \/ IsNaN(b) \/ a = b THEN FALSE
    ELSE Sub(a, b)[1] < 0
Gt(a, b) == Lt(b, a)
Le(a, b) == ~IsNaN(a) /\ ~IsNaN(b) /\ ~Lt(b, a)
Ge(a, b) == Le(b, a)

Fabs(a) == IF IsNaN(a) THEN NaN ELSE <<AbsI(a[1]), a[2]>>

\* integer square root (floor) by bisection, lo*lo <= n < hi*hi
RECURSIVE ISqrt(_, _, _)
ISqrt(n, lo, hi) ==
    IF hi - lo <= 1 THEN lo
    ELSE LET mid == (lo + hi) \div 2
         IN IF mid * mid <= n THEN ISqrt(n, mid, hi) ELSE ISqrt(n, lo, mid)

Sqrt(a) ==
    IF IsNaN(a) THEN NaN
    ELSE IF IsZero(a) THEN Zero
    ELSE IF a[1] < 0 THEN NaN
    ELSE IF IsInf(a) THEN PInf
    ELSE LET k0 == 8 - Digits(a[1])
             k == IF (a[2] - k0) % 2 = 0 THEN k0 ELSE k0 + 1
         IN Norm(ISqrt(a[1] * Pow10(k), 0, 46340), (a[2] - k) \div 2)

\* conversion of a non-negative integer to the floating type
FromInt(n) == Norm(n, 0)

(***************************************************************************)
(* Index sets of constants.hpp, in the order IEKF.cpp lists them.          *)
(***************************************************************************)
\* nominal state X
X_q_nb_0 == 0
X_q_nb_1 == 1
X_q_nb_2 == 2
X_q_nb_3 == 3
X_vel_n == 4
X_vel_e == 5
X_vel_d == 6
X_gyro_bias_bx == 7
X_gyro_bias_by == 8
X_gyro_bias_bz == 9
X_accel_scale == 10
X_pos_n == 11
X_pos_e == 12
X_pos_d == 13
X_terrain_alt == 14
X_baro_bias == 15
X_n == 16

\* error state Xe
Xe_rot_n == 0
Xe_rot_e == 1
Xe_rot_d == 2
Xe_vel_n == 3
Xe_vel_e == 4
Xe_vel_d == 5
Xe_gyro_bias_n == 6
Xe_gyro_bias_e == 7
Xe_gyro_bias_d == 8
Xe_accel_scale == 9
Xe_pos_n == 10
Xe_pos_e == 11
Xe_pos_d == 12
Xe_terrain_alt == 13
Xe_baro_bias == 14
Xe_n == 15

\* input U
U_omega_nb_bx == 0
U_omega_nb_by == 1
U_omega_nb_bz == 2
U_accel_bx == 3
U_accel_by == 4
U_accel_bz == 5
U_n == 6

\* measurements
Y_accel_n == 3
Y_mag_n == 3
Y_baro_n == 1
Y_gps_pos_n == 0
Y_gps_pos_e == 1
Y_gps_pos_d == 2
Y_gps_vel_n == 3
Y_gps_vel_e == 4
Y_gps_vel_d == 5
Y_gps_n == 6

(***************************************************************************)
(* Vectors and matrices of the matrix library: functions over 0..n-1,      *)
(* zero-initialised, with the library's left-to-right accumulation.        *)
(***************************************************************************)
\* TLC builds a function [i \in S |-> e] lazily and would compute e again at
\* every application, and it computes an operator's argument only where the
\* operator first uses it.  Comparing a value with itself makes TLC compute
\* it there and keep the result: Eval(f) is f, and Ev1(a, f), Ev2(a, b, f)
\* are f with the arguments a, b computed before it.
Eval(f) == IF f = f THEN f ELSE f
Ev1(a, f) == IF a = a THEN Eval(f) ELSE f
Ev2(a, b, f) == IF a = a /\ b = b THEN Eval(f) ELSE f

Vec3(a, b, c) == Eval([i \in 0..2 |-> IF i = 0 THEN a ELSE IF i = 1 THEN b ELSE c])
Quat(a, b, c, d) ==
    Eval([i \in 0..3 |-> IF i = 0 THEN a ELSE IF i = 1 THEN b ELSE IF i = 2 THEN c ELSE d])
ZeroVec(n) == Eval([i \in 0..(n - 1) |-> Zero])
ZeroMat(r, c) == Eval([i \in 0..(r - 1) |-> [j \in 0..(c - 1) |-> Zero]])

VecAdd(a, b) == Ev2(a, b, [i \in DOMAIN a |-> Add(a[i], b[i])])
VecSub(a, b) == Ev2(a, b, [i \in DOMAIN a |-> Sub(a[i], b[i])])
VecScale(a, k) == Ev2(a, k, [i \in DOMAIN a |-> Mul(a[i], k)])
VecDiv(a, k) == Ev2(a, k, [i \in DOMAIN a |-> Div(a[i], k)])

\* a * b is zero, so that adding it leaves a sum as it is (Mul(a, b) = Zero
\* and Add(acc, Zero) = acc): the sums below pass over such terms
ZeroTerm(a, b) == (IsZero(a) /\ IsFinite(b)) \/ (IsZero(b) /\ IsFinite(a))

RECURSIVE DotFrom(_, _, _, _, _)
DotFrom(a, b, k, n, acc) ==
    IF k = n THEN acc
    ELSE IF ZeroTerm(a[k], b[k]) THEN DotFrom(a, b, k + 1, n, acc)
    ELSE IF acc = acc THEN DotFrom(a, b, k + 1, n, Add(acc, Mul(a[k], b[k])))
    ELSE acc
Dot(a, b, n) == Ev2(a, b, DotFrom(a, b, 0, n, Zero))

VecNorm(a, n) == Ev1(a, Sqrt(Dot(a, a, n)))
VecUnit(a, n) == VecDiv(a, VecNorm(a, n))

\* entry (i, j) of A * B, the inner index running 0..n-1
RECURSIVE MacRow(_, _, _, _, _, _, _)
MacRow(A, i, B, j, k, n, acc) ==
    IF k = n THEN acc
    ELSE IF ZeroTerm(A[i][k], B[k][j]) THEN MacRow(A, i, B, j, k + 1, n, acc)
    ELSE IF acc = acc THEN MacRow(A, i, B, j, k + 1, n, Add(acc, Mul(A[i][k], B[k][j])))
    ELSE acc

MatMul(A, B, r, n, c) ==
    Ev2(A, B, [i \in 0..(r - 1) |-> [j \in 0..(c - 1) |-> MacRow(A, i, B, j, 0, n, Zero)]])
MatT(A, r, c) == Ev1(A, [j \in 0..(c - 1) |-> [i \in 0..(r - 1) |-> A[i][j]]])
MatAdd(A, B) == Ev2(A, B, [i \in DOMAIN A |-> [j \in DOMAIN A[i] |-> Add(A[i][j], B[i][j])]])
MatScale(A, k) == Ev2(A, k, [i \in DOMAIN A |-> [j \in DOMAIN A[i] |-> Mul(A[i][j], k)]])
MatVec(A, v, r, n) == Ev2(A, v, [i \in 0..(r - 1) |-> Dot(A[i], v, n)])

\* Vector3::hat(): the cross-product matrix of v
Hat(v) == Ev1(v, [i \in 0..2 |-> [j \in 0..2 |->
        IF i = 0 /\ j = 1 THEN Neg(v[2])
        ELSE IF i = 0 /\ j = 2 THEN v[1]
        ELSE IF i = 1 /\ j = 0 THEN v[2]
        ELSE IF i = 1 /\ j = 2 THEN Neg(v[0])
        ELSE IF i = 2 /\ j = 0 THEN Neg(v[1])
        ELSE IF i = 2 /\ j = 1 THEN v[0]
        ELSE Zero]])

\* Quaternion product p (x) q, scalar first
QuatMul(p, q) ==
    Ev2(p, q, Quat(Sub(Sub(Sub(Mul(p[0], q[0]), Mul(p[1], q[1])), Mul(p[2], q[2])), Mul(p[3], q[3])),
         Sub(Add(Add(Mul(p[0], q[1]), Mul(p[1], q[0])), Mul(p[2], q[3])), Mul(p[3], q[2])),
         Add(Add(Sub(Mul(p[0], q[2]), Mul(p[1], q[3])), Mul(p[2], q[0])), Mul(p[3], q[1])),
         Add(Sub(Add(Mul(p[0], q[3]), Mul(p[1], q[2])), Mul(p[2], q[1])), Mul(p[3], q[0]))))

QuatNorm(q) == VecNorm(q, 4)
QuatNormalize(q) == VecDiv(q, QuatNorm(q))
QuatInversed(q) ==
    Ev1(q, VecDiv(Quat(q[0], Neg(q[1]), Neg(q[2]), Neg(q[3])), Dot(q, q, 4)))

\* the quaternion (0, v) of a vector and the vector part of a quaternion
PureQuat(v) == Ev1(v, Quat(Zero, v[0], v[1], v[2]))
VecPart(q) == Ev1(q, Vec3(q[1], q[2], q[3]))

\* Quaternion::conjugate(v) = q v q^-1 and conjugate_inversed(v) = q^-1 v q
QuatConjugate(q, v) == VecPart(QuatMul(QuatMul(q, PureQuat(v)), QuatInversed(q)))
QuatConjugateInversed(q, v) == VecPart(QuatMul(QuatMul(QuatInversed(q), PureQuat(v)), q))

(***************************************************************************)
(* The filter's data (IEKF.hpp) and the model's bookkeeping.               *)
(***************************************************************************)
VARIABLES
    x,                \* _x, nominal state
    P,                \* _P, error covariance
    u,                \* _u, cached input
    timestampAccel,   \* _timestampAccel
    timestampMag,     \* _timestampMag
    timestampBaro,    \* _timestampBaro
    timestampGps,     \* _timestampGps
    origin,           \* _origin
    pc,               \* position inside callbackImu, "idle" between callbacks
    msg,              \* the IMU message callbackImu is working on
    calls,            \* what the current (last) callbackImu has invoked, in order, and how it ended
    last,             \* the last operation: its name, outcome and the data before it
    published,        \* the last published estimate
    steps             \* entry points called so far

vars == <<x, P, u, timestampAccel, timestampMag, timestampBaro, timestampGps,
          origin, pc, msg, calls, last, published, steps>>

\* _g_n and _B_n as the constructor sets them
g_n == Vec3(Zero, Zero, N(-98, -1))
B_n == Vec3(N(21523, -5), N(771, -5), N(-42741, -5))

\* BETA_TABLE[k], the chi-square threshold for a k-dimensional measurement
BETA_TABLE(k) ==
    IF k = 1 THEN N(882050518, -8)
    ELSE IF k = 2 THEN N(1209459243, -8)
    ELSE IF k = 3 THEN N(1398766123, -8)
    ELSE IF k = 4 THEN N(1608756422, -8)
    ELSE IF k = 5 THEN N(1787977006, -8)
    ELSE IF k = 6 THEN N(1964656478, -8)
    ELSE Zero

(***************************************************************************)
(* IEKF::setP                                                              *)
(***************************************************************************)
\* the value setP leaves at (i, j), j <= i, of the matrix M it is given
\* setP without "force positive diagonal"
SetPClamp_NoFloor(a, diag) == IF Gt(a, N(1, 9)) THEN N(1, 9) ELSE a
SetPClamp(a, diag) ==
    IF Gt(a, N(1, 9)) THEN N(1, 9)
    ELSE IF diag /\ Lt(a, N(1, -6)) THEN N(1, -6)
    ELSE a
SetPEntry(M, i, j) == SetPClamp(IF ~IsFinite(M[i][j]) THEN Zero ELSE M[i][j], i = j)

SetP(M) == Ev1(M, [i \in 0..(Xe_n - 1) |-> [j \in 0..(Xe_n - 1) |->
        IF j <= i THEN SetPEntry(M, i, j) ELSE SetPEntry(M, j, i)]])

(***************************************************************************)
(* IEKF::boundX                                                            *)
(***************************************************************************)
lowerBound(i) ==
    IF i \in X_q_nb_0..X_q_nb_3 THEN N(-2, 0)
    ELSE IF i \in X_vel_n..X_vel_d THEN N(-100, 0)
    ELSE IF i \in X_gyro_bias_bx..X_gyro_bias_bz THEN Zero
    ELSE IF i = X_accel_scale THEN N(8, -1)
    ELSE IF i \in X_pos_n..X_pos_d THEN N(-1, 9)
    ELSE N(-1, 6)

upperBound(i) ==
    IF i \in X_q_nb_0..X_q_nb_3 THEN N(2, 0)
    ELSE IF i \in X_vel_n..X_vel_d THEN N(100, 0)
    ELSE IF i \in X_gyro_bias_bx..X_gyro_bias_bz THEN Zero
    ELSE IF i = X_accel_scale THEN N(15, -1)
    ELSE IF i \in X_pos_n..X_pos_d THEN N(1, 9)
    ELSE N(1, 6)

BoundXClamp(a, i) ==
    IF Lt(a, lowerBound(i)) THEN lowerBound(i)
    ELSE IF Gt(a, upperBound(i)) THEN upperBound(i)
    ELSE a
\* boundX without the PX4_ISFINITE test
BoundXEntry_NoFiniteTest(v, i) == BoundXClamp(v, i)
BoundXEntry(v, i) == BoundXClamp(IF ~IsFinite(v) THEN Zero ELSE v, i)

BoundX(xv) == Ev1(xv, [i \in 0..(X_n - 1) |-> BoundXEntry(xv[i], i)])

(***************************************************************************)
(* Parts of the state and of the input                                     *)
(***************************************************************************)
XQuat(xv) == Ev1(xv, Quat(xv[X_q_nb_0], xv[X_q_nb_1], xv[X_q_nb_2], xv[X_q_nb_3]))
XGyroBias(xv) == Ev1(xv, Vec3(xv[X_gyro_bias_bx], xv[X_gyro_bias_by], xv[X_gyro_bias_bz]))
UAccel(uv) == Ev1(uv, Vec3(uv[U_accel_bx], uv[U_accel_by], uv[U_accel_bz]))
UOmega(uv) == Ev1(uv, Vec3(uv[U_omega_nb_bx], uv[U_omega_nb_by], uv[U_omega_nb_bz]))
\* xv with the quaternion q written into it
WithQuat(xv, q) == Ev2(xv, q, [i \in 0..(X_n - 1) |-> IF i <= X_q_nb_3 THEN q[i] ELSE xv[i]])

(***************************************************************************)
(* IEKF::applyErrorCorrection                                              *)
(***************************************************************************)
\* dx, from the error correction d_xe and the two rotated parts
\* dx with the accelerometer scale correction taken as it is, not scaled by
\* the accelerometer scale
ErrorCorrectionDx_AdditiveScale(xv, d_xe, d_q_nb, d_gyro_bias_b) ==
    Ev2(d_q_nb, d_gyro_bias_b, Ev2(xv, d_xe, [i \in 0..(X_n - 1) |->
        IF i <= X_q_nb_3 THEN d_q_nb[i]
        ELSE IF i <= X_vel_d THEN d_xe[Xe_vel_n + (i - X_vel_n)]
        ELSE IF i <= X_gyro_bias_bz THEN d_gyro_bias_b[i - X_gyro_bias_bx]
        ELSE IF i = X_accel_scale THEN d_xe[Xe_accel_scale]
        ELSE IF i <= X_pos_d THEN d_xe[Xe_pos_n + (i - X_pos_n)]
        ELSE IF i = X_terrain_alt THEN d_xe[Xe_terrain_alt]
        ELSE d_xe[Xe_baro_bias]]))
ErrorCorrectionDx(xv, d_xe, d_q_nb, d_gyro_bias_b) ==
    Ev2(d_q_nb, d_gyro_bias_b, Ev2(xv, d_xe, [i \in 0..(X_n - 1) |->
        IF i <= X_q_nb_3 THEN d_q_nb[i]
        ELSE IF i <= X_vel_d THEN d_xe[Xe_vel_n + (i - X_vel_n)]
        ELSE IF i <= X_gyro_bias_bz THEN d_gyro_bias_b[i - X_gyro_bias_bx]
        ELSE IF i = X_accel_scale THEN Mul(xv[X_accel_scale], d_xe[Xe_accel_scale])
        ELSE IF i <= X_pos_d THEN d_xe[Xe_pos_n + (i - X_pos_n)]
        ELSE IF i = X_terrain_alt THEN d_xe[Xe_terrain_alt]
        ELSE d_xe[Xe_baro_bias]]))

ApplyErrorCorrection(xv, d_xe) ==
    BoundX(VecAdd(xv, ErrorCorrectionDx(xv, d_xe,
        QuatMul(Quat(Zero, d_xe[Xe_rot_n], d_xe[Xe_rot_e], d_xe[Xe_rot_d]), XQuat(xv)),
        QuatConjugateInversed(XQuat(xv),
            Vec3(d_xe[Xe_gyro_bias_n], d_xe[Xe_gyro_bias_e], d_xe[Xe_gyro_bias_d])))))

(***************************************************************************)
(* IEKF::dynamics.  The quaternion and the velocity are read from the      *)
(* argument xa; the input, the accelerometer scale and the gyro bias are   *)
(* read from the members (xm, um), as in the source.                       *)
(***************************************************************************)
DynamicsDx(xa, dq_nb, as_n) ==
    Ev2(dq_nb, as_n, Ev1(xa, [i \in 0..(X_n - 1) |->
        IF i <= X_q_nb_3 THEN dq_nb[i]
        ELSE IF i <= X_vel_d THEN as_n[i - X_vel_n]
        ELSE IF i \in X_pos_n..X_pos_d THEN xa[X_vel_n + (i - X_pos_n)]
        ELSE Zero]))

\* dynamics with the specific force taken as the acceleration, gravity not
\* removed
Dynamics_NoGravity(xa, ua, xm, um) ==
    DynamicsDx(xa,
        VecScale(QuatMul(XQuat(xa), PureQuat(VecSub(UOmega(um), XGyroBias(xm)))), N(5, -1)),
        QuatConjugate(XQuat(xa), VecDiv(UAccel(um), xm[X_accel_scale])))
Dynamics(xa, ua, xm, um) ==
    DynamicsDx(xa,
        VecScale(QuatMul(XQuat(xa), PureQuat(VecSub(UOmega(um), XGyroBias(xm)))), N(5, -1)),
        VecSub(QuatConjugate(XQuat(xa), VecDiv(UAccel(um), xm[X_accel_scale])), g_n))

(***************************************************************************)
(* IEKF::predict                                                           *)
(***************************************************************************)
\* process noise Q
PredictQ ==
    Eval([i \in 0..(Xe_n - 1) |-> [j \in 0..(Xe_n - 1) |->
        IF i # j THEN Zero
        ELSE IF i \in Xe_gyro_bias_n..Xe_gyro_bias_d THEN N(1, -4)
        ELSE IF i = Xe_accel_scale THEN N(1, -2)
        ELSE N(1, -1)]])

\* the quaternion predict works with: normalised when its norm is off by
\* more than 1e-3
Renormalized(q_nb) ==
    Ev1(q_nb, IF Gt(Fabs(Sub(QuatNorm(q_nb), One)), N(1, -3)) THEN QuatNormalize(q_nb) ELSE q_nb)
PredictQuat(xv) == Renormalized(XQuat(xv))

\* error-state system matrix A, from a_tmp, J_a_n and g_tmp
PredictAFill(J_a_n, a_tmp, g_tmp) ==
    Ev2(a_tmp, g_tmp, Ev1(J_a_n, [i \in 0..(Xe_n - 1) |-> [j \in 0..(Xe_n - 1) |->
        IF i \in Xe_rot_n..Xe_rot_d
        THEN (IF j = Xe_gyro_bias_n + (i - Xe_rot_n) THEN N(-5, -1) ELSE Zero)
        ELSE IF i \in Xe_vel_n..Xe_vel_d
        THEN (IF j \in Xe_rot_n..Xe_rot_d THEN a_tmp[i - Xe_vel_n][j - Xe_rot_n]
              ELSE IF j = Xe_accel_scale THEN Neg(J_a_n[i - Xe_vel_n])
              ELSE Zero)
        ELSE IF i \in Xe_gyro_bias_n..Xe_gyro_bias_d
        THEN (IF j \in Xe_rot_n..Xe_rot_d THEN g_tmp[i - Xe_gyro_bias_n][j - Xe_rot_n] ELSE Zero)
        ELSE IF i \in Xe_pos_n..Xe_pos_d
        THEN (IF j = Xe_vel_n + (i - Xe_pos_n) THEN One ELSE Zero)
        ELSE Zero]]))
PredictAOf(J_a_n, J_omega_n) ==
    PredictAFill(J_a_n, MatScale(MatScale(Hat(J_a_n), N(-1, 0)), N(2, 0)), Hat(J_omega_n))
PredictA(q_nb, xv, uv) ==
    PredictAOf(QuatConjugate(q_nb, VecDiv(UAccel(uv), xv[X_accel_scale])),
               QuatConjugate(q_nb, VecSub(UOmega(uv), XGyroBias(xv))))

\* x after predict(dt): x1 is the state with the quaternion predict works with
PredictXFrom(x1, uv, dt) == Ev1(x1, BoundX(VecAdd(x1, VecScale(Dynamics(x1, uv, x1, uv), dt))))
PredictX(xv, uv, dt) == PredictXFrom(WithQuat(xv, PredictQuat(xv)), uv, dt)

\* P after predict(dt)
PredictPFrom(A, Pv, dt) ==
    Ev2(A, Pv, SetP(MatAdd(Pv, MatScale(MatAdd(MatAdd(MatMul(A, Pv, Xe_n, Xe_n, Xe_n),
                                   MatMul(Pv, MatT(A, Xe_n, Xe_n), Xe_n, Xe_n, Xe_n)),
                            PredictQ), dt))))
PredictP(xv, Pv, uv, dt) == PredictPFrom(PredictA(PredictQuat(xv), xv, uv), Pv, dt)

(***************************************************************************)
(* kalman_correct of matrix/filter.hpp                                     *)
(***************************************************************************)
\* Gauss-Jordan elimination on the n x 2n matrix M, from column k on
GJRow(M, k, n) == Ev1(M, [j \in 0..(2 * n - 1) |-> Div(M[k][j], M[k][k])])
GJStep(M, k, n, rowk) ==
    Ev2(M, rowk, [i \in 0..(n - 1) |->
        IF i = k THEN rowk
        ELSE [j \in 0..(2 * n - 1) |-> Sub(M[i][j], Mul(M[i][k], rowk[j]))]])
RECURSIVE GaussJordan(_, _, _)
GaussJordan(M, k, n) ==
    IF k = n THEN M ELSE GaussJordan(GJStep(M, k, n, GJRow(M, k, n)), k + 1, n)

Augmented(S, n) ==
    Ev1(S, [i \in 0..(n - 1) |-> [j \in 0..(2 * n - 1) |->
        IF j < n THEN S[i][j] ELSE IF j - n = i THEN One ELSE Zero]])
RightHalf(G, n) == Ev1(G, [i \in 0..(n - 1) |-> [j \in 0..(n - 1) |-> G[i][j + n]]])
MatInv(S, n) == RightHalf(GaussJordan(Augmented(S, n), 0, n), n)

\* S = H P H' + R, K = P H' S^-1, dxe = K r, dP = -K H P, beta = r' S^-1 r
KalmanFromK(Pv, H, r, m, S_I, K) ==
    Ev2(S_I, K,
        [dxe |-> MatVec(K, r, Xe_n, m),
         beta |-> Dot(r, MatVec(S_I, r, m, m), m),
         dP |-> MatScale(MatMul(MatMul(K, H, Xe_n, m, Xe_n), Pv, Xe_n, Xe_n, Xe_n), N(-1, 0))])
KalmanFromSI(Pv, H, r, m, PHt, S_I) ==
    Ev2(PHt, S_I, KalmanFromK(Pv, H, r, m, S_I, MatMul(PHt, S_I, Xe_n, m, m)))
KalmanFromPHt(Pv, H, R, r, m, PHt) ==
    Ev1(PHt, KalmanFromSI(Pv, H, r, m, PHt, MatInv(MatAdd(MatMul(H, PHt, m, Xe_n, m), R), m)))
KalmanCorrect(Pv, H, R, r, m) ==
    Ev2(Pv, H, KalmanFromPHt(Pv, H, R, r, m, MatMul(Pv, MatT(H, m, Xe_n), Xe_n, Xe_n, m)))

(***************************************************************************)
(* The "new data" test each of correctAccel, correctMag and correctBaro     *)
(* starts with.  Timestamps are uint64_t: the difference of two of them is  *)
(* taken modulo 2^64 before it becomes a float.  The model keeps every      *)
(* timestamp below 2^31, so that a difference new - cached with             *)
(* new < cached is 2^64 - d with d < 2^31, which the conversion to float    *)
(* rounds to 2^64.                                                          *)
(***************************************************************************)
Two64 == N(18446744, 12)
U64SubToFloat(a, b) == IF a >= b THEN FromInt(a - b) ELSE Two64

\* msg->timestamp + relative offset, the offsets of the inputs never reaching
\* below zero
SensorTimestamp(t, rel) == t + rel

\* run: the corrector goes on; ts: the cached timestamp it leaves; dt: its dt
\* the test without the comparison of the new timestamp with the cached one
NewData_NoDuplicateSkip(tsNew, tsCached, dt) ==
    IF Lt(dt, Zero)
    THEN [run |-> FALSE, why |-> "neg", ts |-> tsCached, dt |-> dt]
    ELSE [run |-> TRUE, why |-> "new", ts |-> tsNew, dt |-> dt]
NewData(tsNew, tsCached, dt) ==
    IF tsNew # tsCached
    THEN (IF Lt(dt, Zero)
          THEN [run |-> FALSE, why |-> "neg", ts |-> tsCached, dt |-> dt]
          ELSE [run |-> TRUE, why |-> "new", ts |-> tsNew, dt |-> dt])
    ELSE [run |-> FALSE, why |-> "dup", ts |-> tsCached, dt |-> Zero]
TimestampCheck(tsNew, tsCached) ==
    NewData(tsNew, tsCached, Div(U64SubToFloat(tsNew, tsCached), N(1, 6)))

(***************************************************************************)
(* What the correctors share: the chi-square check, the zeroing of parts   *)
(* of dxe, applyErrorCorrection(dxe) and setP(_P + dP).                     *)
(***************************************************************************)
\* if (beta > BETA_TABLE[k]) ROS_WARN(...): the update goes on as it is
Fault(beta, k) == Gt(beta, BETA_TABLE(k))
\* a chi-square check that drops the update it finds faulty
Gated_Dropping(kc, k) ==
    Ev1(kc, [dxe |-> IF Fault(kc.beta, k) THEN ZeroVec(Xe_n) ELSE kc.dxe,
             dP |-> IF Fault(kc.beta, k) THEN ZeroMat(Xe_n, Xe_n) ELSE kc.dP,
             fault |-> Fault(kc.beta, k)])
Gated(kc, k) == Ev1(kc, [dxe |-> kc.dxe, dP |-> kc.dP, fault |-> Fault(kc.beta, k)])

\* dxe with the components in zeroed set to 0
Masked(dxe, zeroed) == Ev1(dxe, [i \in 0..(Xe_n - 1) |-> IF i \in zeroed THEN Zero ELSE dxe[i]])

\* a corrector that returns early, and one that applies its update
Skipped(xv, Pv, chk, why) ==
    [x |-> xv, P |-> Pv, ts |-> chk.ts, outcome |-> why, fault |-> FALSE, dt |-> chk.dt]
Applied(xv, Pv, chk, g, zeroed) ==
    Ev1(g, [x |-> ApplyErrorCorrection(xv, Masked(g.dxe, zeroed)),
            P |-> SetP(MatAdd(Pv, g.dP)),
            ts |-> chk.ts, outcome |-> "applied", fault |-> g.fault, dt |-> chk.dt])

\* the m x Xe_n matrix with the 3 x 3 block tmp at the rotation columns
RotBlockH(tmp) ==
    Ev1(tmp, [i \in 0..2 |-> [j \in 0..(Xe_n - 1) |->
        IF j \in Xe_rot_n..Xe_rot_d THEN tmp[i][j - Xe_rot_n] ELSE Zero]])
DiagMat(d, n) == Ev1(d, [i \in 0..(n - 1) |-> [j \in 0..(n - 1) |-> IF i = j THEN d[i] ELSE Zero]])

(***************************************************************************)
(* IEKF::correctAccel                                                      *)
(***************************************************************************)
ImuAccel(m) == m.accelerometer_m_s2

\* "don't correct if accelerating"
\* correctAccel without the gravity test
AccelGateFails_Never(xv, y_b) == FALSE
AccelGateFails(xv, y_b) ==
    Gt(Fabs(Sub(VecNorm(VecDiv(y_b, xv[X_accel_scale]), 3), VecNorm(g_n, 3))), One)

AccelResidual(xv, y_b) == VecSub(QuatConjugate(XQuat(xv), VecDiv(y_b, xv[X_accel_scale])), g_n)
AccelR(dt) == DiagMat(Vec3(Div(One, dt), Div(One, dt), Div(One, dt)), Y_accel_n)
AccelH == RotBlockH(MatScale(Hat(VecUnit(g_n, 3)), N(2, 0)))
AccelUpdate(xv, Pv, m, dt) ==
    KalmanCorrect(Pv, AccelH, AccelR(dt), AccelResidual(xv, ImuAccel(m)), Y_accel_n)

CorrectAccelFrom(xv, Pv, m, chk) ==
    IF ~chk.run THEN Skipped(xv, Pv, chk, chk.why)
    ELSE IF AccelGateFails(xv, ImuAccel(m)) THEN Skipped(xv, Pv, chk, "gate")
    ELSE Applied(xv, Pv, chk, Gated(AccelUpdate(xv, Pv, m, chk.dt), Y_accel_n), {Xe_rot_d})
CorrectAccel(xv, Pv, ts, m) ==
    CorrectAccelFrom(xv, Pv, m,
        TimestampCheck(SensorTimestamp(m.timestamp, m.accelerometer_timestamp_relative), ts))

(***************************************************************************)
(* IEKF::correctMag                                                        *)
(***************************************************************************)
MagResidual(xv, m) ==
    VecSub(QuatConjugate(XQuat(xv), VecUnit(m.magnetometer_ga, 3)), VecUnit(B_n, 3))
MagR(dt) == DiagMat(Vec3(Div(One, dt), Div(One, dt), Div(N(100, 0), dt)), Y_mag_n)
MagH == RotBlockH(MatScale(Hat(VecUnit(B_n, 3)), N(2, 0)))
MagUpdate(xv, Pv, m, dt) == KalmanCorrect(Pv, MagH, MagR(dt), MagResidual(xv, m), Y_mag_n)

CorrectMagFrom(xv, Pv, m, chk) ==
    IF ~chk.run THEN Skipped(xv, Pv, chk, chk.why)
    ELSE Applied(xv, Pv, chk, Gated(MagUpdate(xv, Pv, m, chk.dt), Y_mag_n), {Xe_rot_n, Xe_rot_e})
CorrectMag(xv, Pv, ts, m) ==
    CorrectMagFrom(xv, Pv, m,
        TimestampCheck(SensorTimestamp(m.timestamp, m.magnetometer_timestamp_relative), ts))

(***************************************************************************)
(* Origin (origin.hpp): the latched reference of the local frame.           *)
(* Latitude and longitude are kept in the message's unit of 1e-7 degree,   *)
(* the altitude in metres; the projection is taken as linear.              *)
(***************************************************************************)
OriginInit ==
    [xyInit |-> FALSE, lat |-> 0, lon |-> 0, xyTimestamp |-> 0,
     altInit |-> FALSE, alt |-> Zero, altTimestamp |-> 0]
xyInitialized(org) == org.xyInit
altInitialized(org) == org.altInit
getAlt(org) == org.alt
xyInitialize(org, lat, lon, t) ==
    [org EXCEPT !.xyInit = TRUE, !.lat = lat, !.lon = lon, !.xyTimestamp = t]
altInitialize(org, alt, t) == [org EXCEPT !.altInit = TRUE, !.alt = alt, !.altTimestamp = t]
\* metres per 1e-7 degree of latitude and of longitude
MetresPerLat == N(11132, -6)
MetresPerLon == N(7500, -6)
IntToFloat(n) == IF n < 0 THEN Neg(FromInt(-n)) ELSE FromInt(n)
globalToLocal(org, lat, lon, alt_m) ==
    Vec3(Mul(IntToFloat(lat - org.lat), MetresPerLat),
         Mul(IntToFloat(lon - org.lon), MetresPerLon),
         Neg(Sub(alt_m, org.alt)))

(***************************************************************************)
(* IEKF::correctBaro                                                       *)
(***************************************************************************)
BaroResidual(xv, org, m) ==
    [i \in 0..0 |-> Sub(m.baro_alt_meter,
                        Sub(Add(Neg(xv[X_pos_d]), xv[X_baro_bias]), getAlt(org)))]
BaroR(dt) == Eval([i \in 0..0 |-> [j \in 0..0 |-> Div(N(10, 0), dt)]])
BaroH ==
    Eval([i \in 0..0 |-> [j \in 0..(Xe_n - 1) |->
        IF j = Xe_pos_d THEN N(-1, 0) ELSE IF j = Xe_baro_bias THEN One ELSE Zero]])
BaroUpdate(xv, Pv, org, m, dt) ==
    KalmanCorrect(Pv, BaroH, BaroR(dt), BaroResidual(xv, org, m), Y_baro_n)

CorrectBaroFrom(xv, Pv, org, m, chk) ==
    IF ~chk.run THEN Skipped(xv, Pv, chk, chk.why)
    ELSE Applied(xv, Pv, chk, Gated(BaroUpdate(xv, Pv, org, m, chk.dt), Y_baro_n), {})
CorrectBaro(xv, Pv, ts, org, m) ==
    CorrectBaroFrom(xv, Pv, org, m,
        TimestampCheck(SensorTimestamp(m.timestamp, m.baro_timestamp_relative), ts))

(***************************************************************************)
(* IEKF::correctGps                                                        *)
(***************************************************************************)
\* "check for good gps signal"
\* the signal check rejecting only a sample bad in both respects
GpsRejected_Both(g) == g.satellites_used < 6 /\ g.fix_type < 3
GpsRejected(g) == g.satellites_used < 6 \/ g.fix_type < 3

\* float alt_m = msg->alt * 1e-3
GpsAlt(g) == Mul(IntToFloat(g.alt), N(1, -3))

\* "init global reference"
\* the horizontal reference initialised by every accepted fix
LatchXy_Always(org, g) == xyInitialize(org, g.lat, g.lon, g.timestamp)
LatchXy(org, g) ==
    IF ~xyInitialized(org) THEN xyInitialize(org, g.lat, g.lon, g.timestamp) ELSE org
LatchAlt(org, g) ==
    IF ~altInitialized(org) THEN altInitialize(org, GpsAlt(g), g.timestamp) ELSE org
LatchOrigin(org, g) == LatchAlt(LatchXy(org, g), g)

GpsYFrom(pos, g) == Ev1(pos, [i \in 0..(Y_gps_n - 1) |->
    IF i <= Y_gps_pos_d THEN pos[i]
    ELSE IF i = Y_gps_vel_n THEN g.vel_n_m_s
    ELSE IF i = Y_gps_vel_e THEN g.vel_e_m_s
    ELSE g.vel_d_m_s])
GpsY(org, g) == GpsYFrom(globalToLocal(org, g.lat, g.lon, GpsAlt(g)), g)
GpsYh(xv) == Ev1(xv, [i \in 0..(Y_gps_n - 1) |->
    IF i <= Y_gps_pos_d THEN xv[X_pos_n + i] ELSE xv[X_vel_n + (i - Y_gps_vel_n)]])
GpsR == Eval([i \in 0..(Y_gps_n - 1) |-> [j \in 0..(Y_gps_n - 1) |-> IF i = j THEN One ELSE Zero]])
GpsH ==
    Eval([i \in 0..(Y_gps_n - 1) |-> [j \in 0..(Xe_n - 1) |->
        IF i <= Y_gps_pos_d /\ j = Xe_pos_n + i THEN One
        ELSE IF i >= Y_gps_vel_n /\ j = Xe_vel_n + (i - Y_gps_vel_n) THEN One
        ELSE Zero]])
GpsUpdate(xv, Pv, org, g) == KalmanCorrect(Pv, GpsH, GpsR, VecSub(GpsY(org, g), GpsYh(xv)), Y_gps_n)

\* the filter after correctGps(g): org is the origin after the latching
GpsApplied(xv, Pv, org, g) ==
    [origin |-> org] @@
    Applied(xv, Pv, [ts |-> g.timestamp, dt |-> Zero],
            Gated(GpsUpdate(xv, Pv, org, g), Y_gps_n), {Xe_rot_n, Xe_rot_e, Xe_rot_d})
CorrectGps(xv, Pv, ts, org, g) ==
    IF GpsRejected(g)
    THEN [origin |-> org] @@ Skipped(xv, Pv, [ts |-> ts, dt |-> Zero], "rejected")
    ELSE GpsApplied(xv, Pv, LatchOrigin(org, g), g)

(***************************************************************************)
(* IEKF::publish: the estimate handed to the publishers                    *)
(***************************************************************************)
Publish(xv, Pv) ==
    [q |-> XQuat(xv),
     eph |-> Sqrt(Add(Pv[Xe_pos_n][Xe_pos_n], Pv[Xe_pos_e][Xe_pos_e])),
     epv |-> Pv[Xe_pos_d][Xe_pos_d]]

(***************************************************************************)
(* The inputs the entry points are called with.                            *)
(***************************************************************************)
ImuMsg(t, gyro, gdt, accRel, acc, magRel, mag, baroRel, baro) ==
    [timestamp |-> t, gyro_rad |-> gyro, gyro_integral_dt |-> gdt,
     accelerometer_timestamp_relative |-> accRel, accelerometer_m_s2 |-> acc,
     magnetometer_timestamp_relative |-> magRel, magnetometer_ga |-> mag,
     baro_timestamp_relative |-> baroRel, baro_alt_meter |-> baro]

\* at rest, level, 5 ms after the start
ImuRest ==
    ImuMsg(5000, ZeroVec(3), N(5, -3), 0, Vec3(Zero, Zero, N(-98, -1)), 0, B_n, 0, Zero)
\* 2000 s after the start, no gyro integration interval, gravity along x,
\* the field reversed, the barometer far off
ImuFar ==
    ImuMsg(2000000000, Vec3(N(1, -1), Zero, Zero), Zero, 0, Vec3(N(98, -1), Zero, Zero),
           0, VecScale(B_n, N(-1, 0)), 0, N(1, 6))
\* accelerating at 12 m/s^2, the magnetometer sample 5 ms older than the message
ImuAccelerating ==
    ImuMsg(10000, ZeroVec(3), N(5, -3), 0, Vec3(N(12, 0), Zero, Zero),
           -5000, B_n, 0, N(10, 0))
\* non-finite readings
ImuBroken ==
    ImuMsg(2000, Vec3(NaN, Zero, Zero), NaN, 0, Vec3(NaN, Zero, N(-98, -1)),
           0, Vec3(PInf, Zero, Zero), 0, NaN)

ImuMsgs == {ImuRest, ImuFar, ImuAccelerating, ImuBroken}
\* the samples the correctors are called with on their own
DirectMsgs == {ImuRest, ImuFar}

GpsMsg(t, lat, lon, alt, vn, ve, vd, sats, fix) ==
    [timestamp |-> t, lat |-> lat, lon |-> lon, alt |-> alt,
     vel_n_m_s |-> vn, vel_e_m_s |-> ve, vel_d_m_s |-> vd,
     satellites_used |-> sats, fix_type |-> fix]
GpsGood == GpsMsg(100000, 473970000, 85450000, 488000, Zero, Zero, Zero, 8, 3)
\* the same timestamp, 0.01 degree further north, 12 m higher, moving
GpsMoved == GpsMsg(100000, 474070000, 85450000, 500000, N(10, 0), Zero, Zero, 8, 3)
GpsFewSats == GpsMsg(200000, 474070000, 85450000, 500000, N(10, 0), Zero, Zero, 5, 3)
GpsNoFix == GpsMsg(300000, 473970000, 85450000, 488000, NaN, Zero, Zero, 8, 2)
GpsMsgs == {GpsGood, GpsMoved, GpsFewSats, GpsNoFix}

PredictDts == {N(5, -3), NaN}

\* error corrections: a rotation of 1 about north; non-finite and huge
\* components; an accelerometer scale correction
DxeRot == Eval([i \in 0..(Xe_n - 1) |-> IF i = Xe_rot_n THEN One ELSE Zero])
DxeWild ==
    Eval([i \in 0..(Xe_n - 1) |->
        IF i = Xe_rot_e THEN PInf
        ELSE IF i = Xe_vel_n THEN N(1, 30)
        ELSE IF i = Xe_gyro_bias_n THEN One
        ELSE IF i = Xe_accel_scale THEN NaN
        ELSE IF i = Xe_pos_d THEN N(-1, 12)
        ELSE IF i = Xe_baro_bias THEN N(1, 7)
        ELSE Zero])
DxeScale == Eval([i \in 0..(Xe_n - 1) |-> IF i = Xe_accel_scale THEN N(5, -1) ELSE Zero])
DxeInputs == {DxeRot, DxeWild, DxeScale}

\* covariances handed to setP: one that is neither symmetric nor finite nor
\* positive on its diagonal, and a small diagonal one
WildP ==
    Eval([i \in 0..(Xe_n - 1) |-> [j \in 0..(Xe_n - 1) |->
        IF i = j THEN (IF i = Xe_rot_n THEN N(-1, 0)
                       ELSE IF i = Xe_rot_e THEN NaN
                       ELSE IF i = Xe_rot_d THEN N(1, 12)
                       ELSE IF i = Xe_vel_n THEN NInf
                       ELSE N(4, 0))
        ELSE IF j = 0 THEN N(5, -1)
        ELSE IF i = 0 THEN PInf
        ELSE IF i = Xe_pos_d /\ j = Xe_baro_bias THEN N(3, 0)
        ELSE IF i = Xe_baro_bias /\ j = Xe_pos_d THEN N(-2, 10)
        ELSE Zero]])
SmallP == Eval([i \in 0..(Xe_n - 1) |-> [j \in 0..(Xe_n - 1) |-> IF i = j THEN N(4, 0) ELSE Zero]])
PInputs == {WildP, SmallP}

\* entry points called in one behaviour
MaxSteps == 2

(***************************************************************************)
(* IEKF::IEKF: the constructed filter                                      *)
(***************************************************************************)
x0 == Eval([i \in 0..(X_n - 1) |-> IF i = X_q_nb_0 \/ i = X_accel_scale THEN One ELSE Zero])
P0 ==
    Eval([i \in 0..(Xe_n - 1) |-> [j \in 0..(Xe_n - 1) |->
        IF i # j THEN Zero
        ELSE IF i \in {Xe_rot_n, Xe_rot_e} THEN N(10, 0)
        ELSE IF i = Xe_rot_d THEN N(100, 0)
        ELSE IF i \in Xe_gyro_bias_n..Xe_gyro_bias_d THEN N(1, -3)
        ELSE IF i = Xe_accel_scale THEN N(1, -1)
        ELSE N(1, 9)]])

\* the record kept of the last operation: what ran, how it ended, the data
\* it started from, and the operation before it
Before(l) == [op |-> l.op, arg |-> l.arg, x |-> l.x, P |-> l.P]
LastOf(op, outcome, fault, dt, tsNew, ts, arg) ==
    [op |-> op, outcome |-> outcome, fault |-> fault, dt |-> dt, tsNew |-> tsNew,
     ts |-> ts, arg |-> arg, x |-> x, P |-> P, origin |-> origin, before |-> Before(last)]

\* the record of the construction, from the state xv
Constructed(xv) ==
    [op |-> "IEKF", outcome |-> "applied", fault |-> FALSE, dt |-> Zero, tsNew |-> 0,
     ts |-> 0, arg |-> 0, x |-> xv, P |-> P0, origin |-> OriginInit,
     before |-> [op |-> "none", arg |-> 0, x |-> xv, P |-> P0]]

Init ==
    /\ x = x0
    /\ P = P0
    /\ u = ZeroVec(U_n)
    /\ timestampAccel = 0
    /\ timestampMag = 0
    /\ timestampBaro = 0
    /\ timestampGps = 0
    /\ origin = OriginInit
    /\ pc = "idle"
    /\ msg = ImuRest
    /\ calls = <<>>
    /\ last = Constructed(x0)
    /\ published = Publish(x0, P0)
    /\ steps = 0

(***************************************************************************)
(* The bodies of the operations, as they run inside callbackImu and when   *)
(* they are called on their own.                                           *)
(***************************************************************************)
DoPredict(dt) ==
    /\ x' = PredictX(x, u, dt)
    /\ P' = PredictP(x, P, u, dt)
    /\ last' = LastOf("predict", "applied", FALSE, dt, 0, 0, dt)
    /\ UNCHANGED <<u, timestampAccel, timestampMag, timestampBaro, timestampGps, origin, published>>

DoCorrectAccel(m) ==
    \E r \in {CorrectAccel(x, P, timestampAccel, m)} :
        /\ x' = r.x
        /\ P' = r.P
        /\ timestampAccel' = r.ts
        /\ last' = LastOf("correctAccel", r.outcome, r.fault, r.dt,
                          SensorTimestamp(m.timestamp, m.accelerometer_timestamp_relative),
                          timestampAccel, m)
        /\ UNCHANGED <<u, timestampMag, timestampBaro, timestampGps, origin, published>>

DoCorrectMag(m) ==
    \E r \in {CorrectMag(x, P, timestampMag, m)} :
        /\ x' = r.x
        /\ P' = r.P
        /\ timestampMag' = r.ts
        /\ last' = LastOf("correctMag", r.outcome, r.fault, r.dt,
                          SensorTimestamp(m.timestamp, m.magnetometer_timestamp_relative),
                          timestampMag, m)
        /\ UNCHANGED <<u, timestampAccel, timestampBaro, timestampGps, origin, published>>

DoCorrectBaro(m) ==
    \E r \in {CorrectBaro(x, P, timestampBaro, origin, m)} :
        /\ x' = r.x
        /\ P' = r.P
        /\ timestampBaro' = r.ts
        /\ last' = LastOf("correctBaro", r.outcome, r.fault, r.dt,
                          SensorTimestamp(m.timestamp, m.baro_timestamp_relative),
                          timestampBaro, m)
        /\ UNCHANGED <<u, timestampAccel, timestampMag, timestampGps, origin, published>>

\* an entry of the log of what callbackImu has invoked
Called(op, outcome) == [op |-> op, outcome |-> outcome]

\* the order of the calls inside callbackImu
\* callbackImu with correctBaro called before correctMag
NextPc_BaroFirst(p) ==
    IF p = "idle" THEN "predict"
    ELSE IF p = "predict" THEN "accel"
    ELSE IF p = "accel" THEN "baro"
    ELSE IF p = "baro" THEN "mag"
    ELSE IF p = "mag" THEN "publish"
    ELSE "idle"
NextPc(p) ==
    IF p = "idle" THEN "predict"
    ELSE IF p = "predict" THEN "accel"
    ELSE IF p = "accel" THEN "mag"
    ELSE IF p = "mag" THEN "baro"
    ELSE IF p = "baro" THEN "publish"
    ELSE "idle"

\* if (msg->gyro_integral_dt > 0)
PredictDue(m) == Gt(m.gyro_integral_dt, Zero)

(***************************************************************************)
(* IEKF::callbackImu, step by step                                         *)
(***************************************************************************)
callbackImu(m) ==
    /\ pc = "idle"
    /\ steps < MaxSteps
    /\ steps' = steps + 1
    /\ u' = [i \in 0..(U_n - 1) |->
                IF i <= U_omega_nb_bz THEN m.gyro_rad[i] ELSE m.accelerometer_m_s2[i - U_accel_bx]]
    /\ msg' = m
    /\ calls' = <<>>
    /\ pc' = NextPc(pc)
    /\ last' = LastOf("callbackImu", "applied", FALSE, Zero, 0, 0, m)
    /\ UNCHANGED <<x, P, timestampAccel, timestampMag, timestampBaro, timestampGps, origin,
                   published>>

callbackImu_predict ==
    /\ pc = "predict"
    /\ IF PredictDue(msg)
       THEN DoPredict(msg.gyro_integral_dt) /\ calls' = Append(calls, Called("predict", "applied"))
       ELSE /\ last' = LastOf("predict", "skipped", FALSE, msg.gyro_integral_dt, 0, 0,
                              msg.gyro_integral_dt)
            /\ UNCHANGED <<x, P, u, timestampAccel, timestampMag, timestampBaro, timestampGps,
                           origin, published, calls>>
    /\ pc' = NextPc(pc)
    /\ UNCHANGED <<msg, steps>>

callbackImu_correctAccel ==
    /\ pc = "accel"
    /\ DoCorrectAccel(msg)
    /\ calls' = Append(calls, Called("accel", last'.outcome))
    /\ pc' = NextPc(pc)
    /\ UNCHANGED <<msg, steps>>

callbackImu_correctMag ==
    /\ pc = "mag"
    /\ DoCorrectMag(msg)
    /\ calls' = Append(calls, Called("mag", last'.outcome))
    /\ pc' = NextPc(pc)
    /\ UNCHANGED <<msg, steps>>

callbackImu_correctBaro ==
    /\ pc = "baro"
    /\ DoCorrectBaro(msg)
    /\ calls' = Append(calls, Called("baro", last'.outcome))
    /\ pc' = NextPc(pc)
    /\ UNCHANGED <<msg, steps>>

callbackImu_publish ==
    /\ pc = "publish"
    /\ published' = Publish(x, P)
    /\ calls' = Append(calls, Called("publish", "applied"))
    /\ pc' = NextPc(pc)
    /\ last' = LastOf("publish", "applied", FALSE, Zero, 0, 0, msg)
    /\ UNCHANGED <<x, P, u, timestampAccel, timestampMag, timestampBaro, timestampGps, origin,
                   msg, steps>>

(***************************************************************************)
(* The other entry points, called between callbacks                        *)
(***************************************************************************)
Entry ==
    /\ pc = "idle"
    /\ steps < MaxSteps
    /\ steps' = steps + 1
    /\ UNCHANGED <<pc, msg, calls>>

predict(dt) == Entry /\ DoPredict(dt)
correctAccel(m) == Entry /\ DoCorrectAccel(m)
correctMag(m) == Entry /\ DoCorrectMag(m)
correctBaro(m) == Entry /\ DoCorrectBaro(m)

correctGps(g) ==
    /\ Entry
    /\ \E r \in {CorrectGps(x, P, timestampGps, origin, g)} :
        /\ x' = r.x
        /\ P' = r.P
        /\ timestampGps' = r.ts
        /\ origin' = r.origin
        /\ last' = LastOf("correctGps", r.outcome, r.fault, r.dt, g.timestamp, timestampGps, g)
    /\ UNCHANGED <<u, timestampAccel, timestampMag, timestampBaro, published>>

applyErrorCorrection(d_xe) ==
    /\ Entry
    /\ x' = ApplyErrorCorrection(x, d_xe)
    /\ last' = LastOf("applyErrorCorrection", "applied", FALSE, Zero, 0, 0, d_xe)
    /\ UNCHANGED <<P, u, timestampAccel, timestampMag, timestampBaro, timestampGps, origin,
                   published>>

setP(M) ==
    /\ Entry
    /\ P' = SetP(M)
    /\ last' = LastOf("setP", "applied", FALSE, Zero, 0, 0, M)
    /\ UNCHANGED <<x, u, timestampAccel, timestampMag, timestampBaro, timestampGps, origin,
                   published>>

boundX ==
    /\ Entry
    /\ x' = BoundX(x)
    /\ last' = LastOf("boundX", "applied", FALSE, Zero, 0, 0, 0)
    /\ UNCHANGED <<P, u, timestampAccel, timestampMag, timestampBaro, timestampGps, origin,
                   published>>

Next ==
    \/ \E m \in ImuMsgs : callbackImu(m)
    \/ callbackImu_predict
    \/ callbackImu_correctAccel
    \/ callbackImu_correctMag
    \/ callbackImu_correctBaro
    \/ callbackImu_publish
    \/ \E dt \in PredictDts : predict(dt)
    \/ \E m \in DirectMsgs : correctAccel(m)
    \/ \E m \in DirectMsgs : correctMag(m)
    \/ \E m \in DirectMsgs : correctBaro(m)
    \/ \E g \in GpsMsgs : correctGps(g)
    \/ \E d_xe \in DxeInputs : applyErrorCorrection(d_xe)
    \/ \E M \in PInputs : setP(M)
    \/ boundX

Spec == Init /\ [][Next]_vars

(***************************************************************************)
(* applyErrorCorrection called with corrections of the accelerometer scale *)
(* alone, from filters whose accelerometer scale has been brought to the   *)
(* values of ScaleInputs.                                                  *)
(***************************************************************************)
\* accelerometer scales inside the bounds of boundX
ScaleInputs == {N(8, -1), N(9, -1), One, N(1234, -3), N(12, -1), N(15, -1)}
\* increments: small ones of either sign, one with more digits, large ones
\* of either sign, none, and a non-finite one
ScaleIncrements == {N(1, -1), N(-1, -1), N(137, -4), N(5, -1), N(-2, 0), Zero, NaN}

DxeAccelScale(D) == Eval([i \in 0..(Xe_n - 1) |-> IF i = Xe_accel_scale THEN D ELSE Zero])
ScaledX0(s) == Eval([i \in 0..(X_n - 1) |-> IF i = X_accel_scale THEN s ELSE x0[i]])

InitScale ==
    /\ \E s \in ScaleInputs : x = ScaledX0(s) /\ last = Constructed(ScaledX0(s))
    /\ P = P0
    /\ u = ZeroVec(U_n)
    /\ timestampAccel = 0
    /\ timestampMag = 0
    /\ timestampBaro = 0
    /\ timestampGps = 0
    /\ origin = OriginInit
    /\ pc = "idle"
    /\ msg = ImuRest
    /\ calls = <<>>
    /\ published = Publish(x, P)
    /\ steps = 0

NextScale == \E D \in ScaleIncrements : applyErrorCorrection(DxeAccelScale(D))

SpecScale == InitScale /\ [][NextScale]_vars

(***************************************************************************)
(* Predict / correct cycles from the constructed filter: IMU callbacks of  *)
(* a vehicle at rest (no rotation, the accelerometer reading the reaction  *)
(* to gravity, magnetometer and barometer reading what the constructed     *)
(* state predicts), an IMU callback with no input at all, predict called   *)
(* on its own and a first GPS fix.                                         *)
(***************************************************************************)
\* what the accelerometer of a level vehicle at rest reads
RestAccel == Vec3(Zero, Zero, N(-98, -1))
ImuRestA == ImuMsg(1000000, ZeroVec(3), One, 0, RestAccel, 0, B_n, 0, Zero)
ImuRestB == ImuMsg(2000000, ZeroVec(3), N(5, -1), 0, RestAccel, 0, B_n, 0, Zero)
ImuRestLong == ImuMsg(12000000, ZeroVec(3), N(10, 0), 0, RestAccel, 0, B_n, 0, Zero)
\* gyro = 0 and accel = 0
ImuZero == ImuMsg(1000000, ZeroVec(3), One, 0, ZeroVec(3), 0, B_n, 0, Zero)
CycleMsgs == {ImuRestA, ImuRestB, ImuRestLong, ImuZero}
\* intervals predict is called with on its own: one second, and no finite one
CycleDts == {One, PInf}

NextCycles ==
    \/ \E m \in CycleMsgs : callbackImu(m)
    \/ callbackImu_predict
    \/ callbackImu_correctAccel
    \/ callbackImu_correctMag
    \/ callbackImu_correctBaro
    \/ callbackImu_publish
    \/ \E dt \in CycleDts : predict(dt)
    \/ correctGps(GpsGood)

SpecCycles == Init /\ [][NextCycles]_vars

(***************************************************************************)
(* The accel, mag and baro correctors called with samples whose timestamps *)
(* are next to each other, equal, going back, and far apart.               *)
(***************************************************************************)
\* a sample of a vehicle at rest with timestamp t and the sensors' relative
\* timestamps rel
StampedMsg(t, rel) == ImuMsg(t, ZeroVec(3), Zero, rel, RestAccel, rel, B_n, rel, Zero)
StampedMsgs ==
    {StampedMsg(1, 0), StampedMsg(2, 0), StampedMsg(3, -1), StampedMsg(1000000, 0),
     StampedMsg(2147483647, 0)}

NextStamps ==
    \/ \E m \in StampedMsgs : correctAccel(m)
    \/ \E m \in StampedMsgs : correctMag(m)
    \/ \E m \in StampedMsgs : correctBaro(m)

SpecStamps == Init /\ [][NextStamps]_vars

(***************************************************************************)
(* Properties                                                              *)
(***************************************************************************)
Correctors == {"correctAccel", "correctMag", "correctBaro", "correctGps"}
ErrIdx == 0..(Xe_n - 1)

\* C1: after any sequence of calls, with any arguments, P is symmetric,
\* every entry of P is finite and at most 1e9, and every diagonal entry is
\* at least 1e-6.
C1_CovarianceWellFormed ==
    \A i \in ErrIdx : \A j \in ErrIdx :
        /\ P[i][j] = P[j][i]
        /\ IsFinite(P[i][j])
        /\ Le(P[i][j], N(1, 9))
        /\ (i = j => Ge(P[i][i], N(1, -6)))

\* setP has been handed the matrix that is neither symmetric nor finite nor
\* positive on its diagonal, and has repaired it
C1_Witness ==
    /\ last.op = "setP"
    /\ last.arg = WildP
    /\ P[Xe_rot_n][Xe_rot_n] = N(1, -6)
    /\ P[Xe_rot_d][Xe_rot_d] = N(1, 9)
    /\ P[Xe_rot_n][Xe_rot_e] = N(5, -1)

\* C2: after every entry point returns, every element of x is finite and
\* inside its bound: quaternion in [-2, 2], velocity in [-100, 100], gyro
\* bias 0, accel_scale in [0.8, 1.5], position in [-1e9, 1e9], terrain_alt
\* and baro_bias in [-1e6, 1e6].
Within(v, lo, hi) == IsFinite(v) /\ Ge(v, lo) /\ Le(v, hi)
C2_StateBounded ==
    /\ \A i \in X_q_nb_0..X_q_nb_3 : Within(x[i], N(-2, 0), N(2, 0))
    /\ \A i \in X_vel_n..X_vel_d : Within(x[i], N(-100, 0), N(100, 0))
    /\ \A i \in X_gyro_bias_bx..X_gyro_bias_bz : x[i] = Zero
    /\ Within(x[X_accel_scale], N(8, -1), N(15, -1))
    /\ \A i \in X_pos_n..X_pos_d : Within(x[i], N(-1, 9), N(1, 9))
    /\ Within(x[X_terrain_alt], N(-1, 6), N(1, 6))
    /\ Within(x[X_baro_bias], N(-1, 6), N(1, 6))

\* applyErrorCorrection has been handed non-finite and huge corrections and
\* has left x saturated
C2_Witness ==
    /\ last.op = "applyErrorCorrection"
    /\ last.arg = DxeWild
    /\ x[X_vel_n] = N(100, 0)
    /\ x[X_pos_d] = N(-1, 9)
    /\ x[X_baro_bias] = N(1, 6)
    /\ x[X_accel_scale] = N(8, -1)

\* C3: within one IMU callback the calls are predict (only when
\* gyro_integral_dt > 0), then the accel, mag and baro correctors in that
\* order whether or not predict ran, then publish, once and last.
OpsOf(log) == [i \in 1..Len(log) |-> log[i].op]
PredictPart == IF Gt(msg.gyro_integral_dt, Zero) THEN <<"predict">> ELSE <<>>
C3_CallbackOrder ==
    /\ pc = "predict" => OpsOf(calls) = <<>>
    /\ pc = "accel" => OpsOf(calls) = PredictPart
    /\ pc = "mag" => OpsOf(calls) = PredictPart \o <<"accel">>
    /\ pc = "baro" => OpsOf(calls) = PredictPart \o <<"accel", "mag">>
    /\ pc = "publish" => OpsOf(calls) = PredictPart \o <<"accel", "mag", "baro">>
    /\ pc = "idle" =>
          \/ calls = <<>> /\ last.op # "publish"
          \/ OpsOf(calls) = PredictPart \o <<"accel", "mag", "baro", "publish">>

\* a callback without a gyro integration interval has run to its end
C3_Witness ==
    /\ last.op = "publish"
    /\ pc = "idle"
    /\ ~Gt(msg.gyro_integral_dt, Zero)
    /\ OpsOf(calls) = <<"accel", "mag", "baro", "publish">>

\* the cached timestamp of the corrector that ran last
CachedTimestamp ==
    IF last.op = "correctAccel" THEN timestampAccel
    ELSE IF last.op = "correctMag" THEN timestampMag
    ELSE IF last.op = "correctBaro" THEN timestampBaro
    ELSE timestampGps

\* C4: an accel, mag or baro sample whose sensor timestamp is smaller than
\* the corrector's cached timestamp is skipped: x, P and the cached
\* timestamp stay as they were, so the cached timestamp never decreases.
C4_OutOfOrderSkipped ==
    (last.op \in {"correctAccel", "correctMag", "correctBaro"} /\ last.tsNew < last.ts)
        => (x = last.x /\ P = last.P /\ CachedTimestamp = last.ts)

\* C5: a GPS sample with satellites_used < 6 or fix_type < 3 leaves x, P,
\* the cached GPS timestamp and the origin as they were.
C5_RejectedGpsChangesNothing ==
    (last.op = "correctGps" /\ (last.arg.satellites_used < 6 \/ last.arg.fix_type < 3))
        => (x = last.x /\ P = last.P /\ timestampGps = last.ts /\ origin = last.origin)

\* a sample with 5 satellites and a 3D fix has arrived before any origin
\* was latched
C5_Witness ==
    /\ last.op = "correctGps"
    /\ last.arg = GpsFewSats
    /\ last.outcome = "rejected"
    /\ ~last.origin.xyInit

\* C6: the horizontal and the vertical origin are latched once each, both by
\* the first accepted fix; every later fix, and every other operation,
\* leaves latitude, longitude, altitude and their timestamps as latched.
AcceptedFix == last.op = "correctGps" /\ last.arg.satellites_used >= 6 /\ last.arg.fix_type >= 3
C6_OriginLatchedOnce ==
    /\ origin.xyInit = origin.altInit
    /\ (AcceptedFix /\ ~last.origin.xyInit) =>
          /\ origin.xyInit /\ origin.altInit
          /\ origin.lat = last.arg.lat /\ origin.lon = last.arg.lon
          /\ origin.alt = Mul(IntToFloat(last.arg.alt), N(1, -3))
          /\ origin.xyTimestamp = last.arg.timestamp
          /\ origin.altTimestamp = last.arg.timestamp
    /\ (~AcceptedFix \/ last.origin.xyInit) => origin = last.origin

\* a second accepted fix, at another place, has left the origin of the first
C6_Witness ==
    /\ last.op = "correctGps"
    /\ last.arg = GpsMoved
    /\ last.outcome = "applied"
    /\ last.origin.xyInit
    /\ origin.lat = GpsGood.lat
    /\ origin.xyTimestamp = GpsGood.timestamp

\* the update kalman_correct computes for the corrector that ran last, from
\* the data the corrector started with, and the components it zeroes
LastUpdate ==
    IF last.op = "correctAccel" THEN AccelUpdate(last.x, last.P, last.arg, last.dt)
    ELSE IF last.op = "correctMag" THEN MagUpdate(last.x, last.P, last.arg, last.dt)
    ELSE IF last.op = "correctBaro" THEN BaroUpdate(last.x, last.P, last.origin, last.arg, last.dt)
    ELSE GpsUpdate(last.x, last.P, origin, last.arg)
LastZeroed ==
    IF last.op = "correctAccel" THEN {Xe_rot_d}
    ELSE IF last.op = "correctMag" THEN {Xe_rot_n, Xe_rot_e}
    ELSE IF last.op = "correctBaro" THEN {}
    ELSE {Xe_rot_n, Xe_rot_e, Xe_rot_d}
LastDim ==
    IF last.op = "correctGps" THEN 6 ELSE IF last.op = "correctBaro" THEN 1 ELSE 3
UpdateApplied(upd, zeroed, k) ==
    Ev1(upd, /\ last.fault = Gt(upd.beta, BETA_TABLE(k))
             /\ x = ApplyErrorCorrection(last.x, Masked(upd.dxe, zeroed))
             /\ P = SetP(MatAdd(last.P, upd.dP)))

\* C7: the chi-square gate is advisory in all four correctors: a corrector
\* that gets as far as kalman_correct reports a fault exactly when beta
\* exceeds BETA_TABLE[k], and then as otherwise x is the result of
\* applyErrorCorrection(dxe) and P the result of setP(P + dP), for the dxe and
\* dP that kalman_correct returned.
C7_GateAdvisory ==
    (last.op \in Correctors /\ last.outcome = "applied")
        => UpdateApplied(LastUpdate, LastZeroed, LastDim)

\* a corrector has reported a fault and has changed both x and P
C7_Witness ==
    /\ last.op \in Correctors
    /\ last.fault
    /\ x # last.x
    /\ P # last.P

\* C8: every corrector (accel, mag, baro and gps) skips a sample whose
\* timestamp equals its cached timestamp: the second delivery of a
\* timestamp leaves x and P unchanged.
C8_DuplicateSkipped ==
    (last.op \in Correctors /\ last.tsNew = last.ts) => (x = last.x /\ P = last.P)

\* | ||a_b / accel_scale|| - ||g_n|| | > 1.0 for the sample and the state
GravityTestFails(xv, a_b) ==
    Gt(Fabs(Sub(Sqrt(Dot(VecDiv(a_b, xv[X_accel_scale]), VecDiv(a_b, xv[X_accel_scale]), 3)),
                N(98, -1))), One)
Position(log, op) == CHOOSE i \in 1..Len(log) : log[i].op = op
Has(log, op) == \E i \in 1..Len(log) : log[i].op = op

\* C9: an accelerometer sample that fails the gravity pre-gate makes the
\* accel corrector leave x and P unchanged, while in the same IMU callback
\* predict has run (gyro_integral_dt > 0) and the mag and baro correctors are
\* invoked after it.
C9_GravityGateSkipsOnlyAccel ==
    /\ (last.op = "correctAccel" /\ GravityTestFails(last.x, last.arg.accelerometer_m_s2))
          => (x = last.x /\ P = last.P /\ last.outcome # "applied")
    /\ (last.op = "correctAccel" /\ last.outcome = "gate" /\ pc = "mag"
            /\ Gt(msg.gyro_integral_dt, Zero))
          => Has(calls, "predict")
    /\ (last.op = "publish" /\ \E i \in 1..Len(calls) : calls[i] = Called("accel", "gate"))
          => /\ Has(calls, "mag") /\ Has(calls, "baro")
             /\ Position(calls, "accel") < Position(calls, "mag")
             /\ Position(calls, "mag") < Position(calls, "baro")

\* a callback whose sample failed the gravity test has run to its end, with
\* its predict
C9_Witness ==
    /\ last.op = "publish"
    /\ msg = ImuAccelerating
    /\ \E i \in 1..Len(calls) : calls[i] = Called("accel", "gate")
    /\ Has(calls, "predict")
    /\ steps = 1

\* C10: after predict, each corrector and applyErrorCorrection the squared
\* norm of the quaternion of x is within [0.998001, 1.002001].
QuatNormSq == Dot(XQuat(x), XQuat(x), 4)
C10_QuaternionNormalized ==
    (last.op \in Correctors \cup {"predict", "applyErrorCorrection"})
        => (Ge(QuatNormSq, N(998001, -6)) /\ Le(QuatNormSq, N(1002001, -6)))

\* applyErrorCorrection has been called twice in a row, both times with the
\* same correction of the accelerometer scale alone
TwoScaleCalls ==
    /\ last.op = "applyErrorCorrection"
    /\ last.before.op = "applyErrorCorrection"
    /\ last.arg = last.before.arg
    /\ last.arg = DxeAccelScale(last.arg[Xe_accel_scale])
\* the scale the two calls started from, their increment, and s * (1 + D)^k
ScaleStart == last.before.x[X_accel_scale]
ScaleIncrement == last.arg[Xe_accel_scale]
RECURSIVE ScaleTimes(_, _, _)
ScaleTimes(s, D, k) == IF k = 0 THEN s ELSE Mul(ScaleTimes(s, D, k - 1), Add(One, D))
\* a and b agree up to the rounding of a few operations
ScaleTol == N(1, -2)
ScaleClose(a, b) == Le(Fabs(Sub(a, b)), ScaleTol)
InsideScaleBounds(a) == Ge(a, lowerBound(X_accel_scale)) /\ Le(a, upperBound(X_accel_scale))

\* C11 (as stated): for any starting accel_scale s in [0.8, 1.5] and any
\* increment D, two calls of applyErrorCorrection with dxe.accel_scale = D and
\* every other component zero leave accel_scale equal to s * (1 + D)^2.
C11_ScaleMultiplicative ==
    TwoScaleCalls => ScaleClose(x[X_accel_scale], ScaleTimes(ScaleStart, ScaleIncrement, 2))

\* C11 (amended): the two calls leave accel_scale equal, up to rounding, to
\* s * (1 + D)^2 when s * (1 + D) and s * (1 + D)^2 both lie inside
\* [0.8, 1.5]; in every case they leave accel_scale inside [0.8, 1.5].
C11_ScaleMultiplicativeInsideBounds ==
    TwoScaleCalls =>
        /\ InsideScaleBounds(x[X_accel_scale])
        /\ (InsideScaleBounds(ScaleTimes(ScaleStart, ScaleIncrement, 1))
              /\ InsideScaleBounds(ScaleTimes(ScaleStart, ScaleIncrement, 2)))
            => ScaleClose(x[X_accel_scale], ScaleTimes(ScaleStart, ScaleIncrement, 2))

\* two calls with a non-zero increment have moved the scale, by more than
\* the rounding, to s * (1 + D)^2 without reaching a bound
C11_Witness ==
    /\ TwoScaleCalls
    /\ ~IsZero(ScaleIncrement)
    /\ InsideScaleBounds(ScaleTimes(ScaleStart, ScaleIncrement, 1))
    /\ InsideScaleBounds(ScaleTimes(ScaleStart, ScaleIncrement, 2))
    /\ ~ScaleClose(x[X_accel_scale], ScaleStart)
    /\ Gt(x[X_accel_scale], lowerBound(X_accel_scale))
    /\ Lt(x[X_accel_scale], upperBound(X_accel_scale))

\* the input of a vehicle at rest, and no input at all
RestInput == Eval([i \in 0..(U_n - 1) |-> IF i <= U_omega_nb_bz THEN Zero ELSE RestAccel[i - U_accel_bx]])
ZeroInput == ZeroVec(U_n)
\* predict has run from the constructed x, over a finite interval
PredictedFromX0 ==
    last.op = "predict" /\ last.outcome = "applied" /\ last.x = x0 /\ IsFinite(last.dt)
\* the residual of the corrector that ran last, for the data it started with
LastResidual ==
    IF last.op = "correctAccel" THEN AccelResidual(last.x, ImuAccel(last.arg))
    ELSE IF last.op = "correctMag" THEN MagResidual(last.x, last.arg)
    ELSE IF last.op = "correctBaro" THEN BaroResidual(last.x, last.origin, last.arg)
    ELSE VecSub(GpsY(origin, last.arg), GpsYh(last.x))
\* a corrector has applied a measurement equal to the prediction to the
\* constructed x
CorrectedFromX0 ==
    /\ last.op \in Correctors
    /\ last.outcome = "applied"
    /\ last.x = x0
    /\ \A i \in DOMAIN LastResidual : IsZero(LastResidual[i])
\* kalman_correct has returned a finite correction: S was invertible in
\* float arithmetic
FiniteCorrection(upd) == \A i \in ErrIdx : IsFinite(upd.dxe[i])
\* P(i, i) + Q(i, i) * dt
GrownBy(Pv, i, dt) == Add(Pv[i][i], Mul(PredictQ[i][i], dt))
\* the same, held at the 1e9 that setP allows
GrownByCapped(Pv, i, dt) == IF Gt(GrownBy(Pv, i, dt), N(1, 9)) THEN N(1, 9) ELSE GrownBy(Pv, i, dt)

PastNewDataTest ==
    /\ last.op \in {"correctAccel", "correctMag", "correctBaro"}
    /\ last.outcome \notin {"dup", "neg"}
\* the entries k / dt of R, k = 1, 10 and 100, are positive and finite
NoiseWellFormed(dt) ==
    \A k \in {One, N(10, 0), N(100, 0)} : IsFinite(Div(k, dt)) /\ Gt(Div(k, dt), Zero)

\* C13: whenever the accel, mag or baro corrector forms R = k / dt, for any
\* cached and new timestamp that pass the duplicate-timestamp skip and the
\* dt < 0 guard, dt is strictly positive (not zero, not negative), and R is
\* not built with a division by zero.
C13_NoiseDtPositive ==
    PastNewDataTest =>
        /\ last.tsNew # last.ts
        /\ IsFinite(last.dt)
        /\ Gt(last.dt, Zero)
        /\ NoiseWellFormed(last.dt)

\* a corrector has formed R for a sample one microsecond after the
\* timestamp it had cached from an earlier sample
C13_Witness ==
    /\ PastNewDataTest
    /\ last.outcome = "applied"
    /\ last.before.op = last.op
    /\ last.ts > 0
    /\ last.tsNew = last.ts + 1
    /\ last.dt = N(1, -6)

====
